---- MODULE Spec2Model ----
(* Input formatting of textbox/model/Seq2Seq/transformers.py:               *)
(* Transformers.__init__, _init_params and _generate_default_inputs.         *)
(* Token id lists are sequences, the padded tensors are sequences of rows.   *)
(* A text is a sequence of words (naturals); the tokenizer maps each word to *)
(* one vocabulary id.                                                        *)
EXTENDS Integers, Sequences, FiniteSets, TLC

\* ------------------------------------------------------------------ bounds
\* Spec: every configuration, one example per call
MaxSourceMaxLength == 4
MaxTargetMaxLength == 2
MaxAffixLen == 1
MaxTextLen == 2
\* SpecBatch: batches of several examples, no prompts
MaxBatch == 2
MaxBatchLength == 3
MaxBatchTextLen == 1
\* SpecIdem: repeated calls on one instance
MaxCalls == 3
MaxIdemLength == 2
MaxIdemTextLen == 1

\* the label value excluded from the loss (line 141, line 155)
IGNORE_INDEX == -100

VARIABLES
    config,             \* the config the constructor was given
    phase,              \* "new", "failed" (constructor raised) or "ready"
    error,              \* the exception the constructor raised, or "none"
    model_name,         \* self.model_name
    model_loaded,       \* self.model was loaded by from_pretrained
    tokenizer,          \* self.tokenizer (its special tokens and flags)
    configuration,      \* self.configuration, as changed by _init_params
    prefix_ids,         \* self.prefix_ids
    suffix_ids,         \* self.suffix_ids
    bos_token_id,       \* self.bos_token_id
    eos_token_id,       \* self.eos_token_id
    source_max_length,  \* self.source_max_length
    target_max_length,  \* self.target_max_length
    corpus,             \* the corpus of the last _generate_default_inputs call
    examples,           \* the per-example locals of the last call's loop
    inputs,             \* the mapping the last call returned
    calls,              \* number of _generate_default_inputs calls so far
    first_corpus,       \* the corpus of the first call
    first_inputs,       \* the mapping the first call returned
    interleaved         \* some call after the first was given another corpus

cfgvars == <<model_name, model_loaded, tokenizer, configuration, prefix_ids, suffix_ids,
             bos_token_id, eos_token_id, source_max_length, target_max_length>>
callvars == <<corpus, examples, inputs, calls, first_corpus, first_inputs, interleaved>>
vars == <<config, phase, error, cfgvars, callvars>>

\* ------------------------------------------------------- module-level tables
CLM_MODELS == {"gpt2seq", "big_bird2seq", "bert2seq", "roberta2seq"}

EncDecLM_MODELS == {"t5", "bart", "bert2bert", "big_bird_pegasus", "blender_bot"}

\* MODEL_CLASSES[name]['tokenizer'] and ['model'], by class name
MODEL_CLASSES ==
    [n \in CLM_MODELS \cup EncDecLM_MODELS |->
        CASE n = "t5" -> [tokenizer |-> "T5Tokenizer", model |-> "T5ForConditionalGeneration"]
          [] n = "bart" -> [tokenizer |-> "BartTokenizer", model |-> "BartForConditionalGeneration"]
          [] n = "bert2bert" -> [tokenizer |-> "BertTokenizer", model |-> "EncoderDecoderModel"]
          [] n = "big_bird_pegasus" ->
                [tokenizer |-> "PegasusTokenizer", model |-> "BigBirdPegasusForConditionalGeneration"]
          [] n = "blender_bot" ->
                [tokenizer |-> "BlenderbotTokenizer", model |-> "BlenderbotForConditionalGeneration"]
          [] n = "gpt2seq" -> [tokenizer |-> "GPT2Tokenizer", model |-> "GPT2LMHeadModel"]
          [] n = "big_bird2seq" -> [tokenizer |-> "BigBirdTokenizer", model |-> "BigBirdForCausalLM"]
          [] n = "bert2seq" -> [tokenizer |-> "BertTokenizer", model |-> "BertLMHeadModel"]
          [] n = "roberta2seq" -> [tokenizer |-> "RobertaTokenizer", model |-> "RobertaForCausalLM"]]

\* the identifier used as given, without lower-casing
Lower_as_given(s) == s

\* config['model'].lower() on the identifiers a configuration may carry
Lower(s) ==
    CASE s = "T5" -> "t5"
      [] s = "BART" -> "bart"
      [] s = "GPT2Seq" -> "gpt2seq"
      [] s = "Bert2Bert" -> "bert2bert"
      [] s = "LSTM" -> "lstm"
      [] OTHER -> s

\* tokenizer_class.from_pretrained(path): the special tokens of each tokenizer
\* class. has_cls / has_sep: whether cls_token / sep_token is set; framing:
\* what build_inputs_with_special_tokens puts around the ids.
\* gpt2_family: isinstance(tokenizer, GPT2Tokenizer) (line 169).
FromPretrained(class) ==
    CASE class = "T5Tokenizer" ->
            [class |-> class, has_cls |-> FALSE, has_sep |-> FALSE, cls_token_id |-> -1,
             sep_token_id |-> -1, bos_token_id |-> -1, eos_token_id |-> 1, pad_token_id |-> 0,
             framing |-> "eos", gpt2_family |-> FALSE, add_prefix_space |-> FALSE]
      [] class = "PegasusTokenizer" ->
            [class |-> class, has_cls |-> FALSE, has_sep |-> FALSE, cls_token_id |-> -1,
             sep_token_id |-> -1, bos_token_id |-> -1, eos_token_id |-> 1, pad_token_id |-> 0,
             framing |-> "eos", gpt2_family |-> FALSE, add_prefix_space |-> FALSE]
      [] class = "BlenderbotTokenizer" ->
            [class |-> class, has_cls |-> TRUE, has_sep |-> TRUE, cls_token_id |-> 1,
             sep_token_id |-> 2, bos_token_id |-> 1, eos_token_id |-> 2, pad_token_id |-> 0,
             framing |-> "eos", gpt2_family |-> TRUE, add_prefix_space |-> FALSE]
      [] class = "BartTokenizer" ->
            [class |-> class, has_cls |-> TRUE, has_sep |-> TRUE, cls_token_id |-> 0,
             sep_token_id |-> 2, bos_token_id |-> 0, eos_token_id |-> 2, pad_token_id |-> 1,
             framing |-> "cls_sep", gpt2_family |-> TRUE, add_prefix_space |-> FALSE]
      [] class = "RobertaTokenizer" ->
            [class |-> class, has_cls |-> TRUE, has_sep |-> TRUE, cls_token_id |-> 0,
             sep_token_id |-> 2, bos_token_id |-> 0, eos_token_id |-> 2, pad_token_id |-> 1,
             framing |-> "cls_sep", gpt2_family |-> TRUE, add_prefix_space |-> FALSE]
      [] class = "BertTokenizer" ->
            [class |-> class, has_cls |-> TRUE, has_sep |-> TRUE, cls_token_id |-> 101,
             sep_token_id |-> 102, bos_token_id |-> -1, eos_token_id |-> -1, pad_token_id |-> 0,
             framing |-> "cls_sep", gpt2_family |-> FALSE, add_prefix_space |-> FALSE]
      [] class = "BigBirdTokenizer" ->
            [class |-> class, has_cls |-> TRUE, has_sep |-> TRUE, cls_token_id |-> 65,
             sep_token_id |-> 66, bos_token_id |-> 2, eos_token_id |-> 1, pad_token_id |-> 0,
             framing |-> "cls_sep", gpt2_family |-> FALSE, add_prefix_space |-> FALSE]
      [] class = "GPT2Tokenizer" ->
            [class |-> class, has_cls |-> FALSE, has_sep |-> FALSE, cls_token_id |-> -1,
             sep_token_id |-> -1, bos_token_id |-> 50256, eos_token_id |-> 50256,
             pad_token_id |-> -1,
             framing |-> "none", gpt2_family |-> TRUE, add_prefix_space |-> FALSE]

NoTokenizer == [class |-> "None"]

NoConfiguration == [forced_bos_token_id |-> -1, decoder_start_token_id |-> -1, pad_token_id |-> -1]

\* ------------------------------------------------------------ the tokenizer
\* tokenizer.encode(text, add_special_tokens=False): one vocabulary id per word
Encode(text) == [i \in 1..Len(text) |-> 1000 + text[i]]

\* tokenizer.num_special_tokens_to_add()
NumSpecialTokensToAdd(tok) ==
    CASE tok.framing = "cls_sep" -> 2
      [] tok.framing = "eos" -> 1
      [] OTHER -> 0

\* tokenizer.build_inputs_with_special_tokens(ids)
BuildInputsWithSpecialTokens(tok, ids) ==
    CASE tok.framing = "cls_sep" -> <<tok.cls_token_id>> \o ids \o <<tok.sep_token_id>>
      [] tok.framing = "eos" -> ids \o <<tok.eos_token_id>>
      [] OTHER -> ids

\* ------------------------------------------------------------ list helpers
Min(a, b) == IF a < b THEN a ELSE b

Max(a, b) == IF a < b THEN b ELSE a

\* Python's s[:k]: the first k elements, or all but the last -k when k < 0
SliceTo(s, k) ==
    IF k >= 0 THEN SubSeq(s, 1, Min(Len(s), k))
              ELSE SubSeq(s, 1, Max(0, Len(s) + k))

\* n * [v]
Repeat(n, v) == [i \in 1..n |-> v]

\* ------------------------------------------------------------ construction
\* what a caller may pass: texts are sequences of words
SourceText(n) == [i \in 1..n |-> i]

TargetText(n) == [i \in 1..n |-> 10 + i]

PrefixPrompt(n) == [i \in 1..n |-> 20 + i]

SuffixPrompt(n) == [i \in 1..n |-> 30 + i]

ModelIdentifiers ==
    CLM_MODELS \cup EncDecLM_MODELS \cup {"T5", "GPT2Seq", "Bert2Bert", "LSTM", "rnn"}

\* the bos/eos ids the base class leaves on self before line 97
InheritedSpecialIds == {<<50256, 50256>>, <<2, 3>>}

Configs(names, maxSrc, maxTgt, maxAffix, inherited) ==
    [model : names,
     prefix_prompt : {PrefixPrompt(n) : n \in 0..maxAffix},
     suffix_prompt : {SuffixPrompt(n) : n \in 0..maxAffix},
     source_max_length : 1..maxSrc,
     target_max_length : 1..maxTgt,
     inherited : inherited]

NoConfig == [model |-> "None"]

\* whether MODEL_CLASSES[self.model_name] finds an entry (line 76)
HasModelClass(name) == name \in DOMAIN MODEL_CLASSES

\* _init_params, the tokenizer side: add_prefix_space, and gpt2seq's '[PAD]'
InitParamsTokenizer(name, tok) ==
    LET t1 == IF tok.gpt2_family THEN [tok EXCEPT !.add_prefix_space = TRUE] ELSE tok
    IN IF name = "gpt2seq" THEN [t1 EXCEPT !.pad_token_id = 50257] ELSE t1

\* _init_params, the model configuration side
InitParamsConfiguration(name, tok) ==
    CASE name = "bart" -> [NoConfiguration EXCEPT !.forced_bos_token_id = tok.bos_token_id]
      [] name = "bert2bert" ->
            [NoConfiguration EXCEPT !.decoder_start_token_id = tok.cls_token_id,
                                    !.pad_token_id = tok.pad_token_id]
      [] OTHER -> NoConfiguration

\* Transformers.__init__(config, dataset)
Construct(cfg) ==
    /\ phase = "new"
    /\ config' = cfg
    /\ model_name' = Lower(cfg.model)
    /\ IF ~HasModelClass(model_name')
       THEN /\ phase' = "failed"
            /\ error' = "KeyError"
            /\ UNCHANGED <<model_loaded, tokenizer, configuration, prefix_ids, suffix_ids,
                           bos_token_id, eos_token_id, source_max_length, target_max_length>>
       ELSE LET tok == InitParamsTokenizer(model_name',
                           FromPretrained(MODEL_CLASSES[model_name'].tokenizer))
            IN /\ phase' = "ready"
               /\ error' = "none"
               /\ model_loaded' = MODEL_CLASSES[model_name'].model
               /\ tokenizer' = tok
               /\ configuration' = InitParamsConfiguration(model_name', tok)
               /\ prefix_ids' = Encode(cfg.prefix_prompt)
               /\ suffix_ids' = Encode(cfg.suffix_prompt)
               /\ source_max_length' = cfg.source_max_length
               /\ target_max_length' = cfg.target_max_length
               /\ bos_token_id' = IF model_name' \in CLM_MODELS /\ tok.has_cls
                                  THEN tok.cls_token_id ELSE cfg.inherited[1]
               /\ eos_token_id' = IF model_name' \in CLM_MODELS /\ tok.has_sep
                                  THEN tok.sep_token_id ELSE cfg.inherited[2]
    /\ UNCHANGED callvars

\* ------------------------------------------------- _generate_default_inputs
\* reserves one slot instead of two for bos and eos
TruncateSourceCLM_one_slot(src_ids) ==
    SliceTo(src_ids, source_max_length - Len(prefix_ids) - Len(suffix_ids) - 1)

\* line 136: the retained source ids, CLM branch
TruncateSourceCLM(src_ids) ==
    SliceTo(src_ids, source_max_length - Len(prefix_ids) - Len(suffix_ids) - 2)

\* line 137: the retained target ids, CLM branch
TruncateTargetCLM(tgt_ids) == SliceTo(tgt_ids, target_max_length - 1)

\* lines 143-144: the retained source ids, encoder-decoder branch
TruncateSourceEncDec(src_ids) ==
    SliceTo(src_ids, source_max_length - NumSpecialTokensToAdd(tokenizer)
                     - Len(prefix_ids) - Len(suffix_ids))

\* forgets the special tokens the framing adds
TruncateTargetEncDec_no_overhead(tgt_ids) == SliceTo(tgt_ids, target_max_length)

\* line 145: the retained target ids, encoder-decoder branch
TruncateTargetEncDec(tgt_ids) ==
    SliceTo(tgt_ids, target_max_length - NumSpecialTokensToAdd(tokenizer))

\* masks prefix + source + suffix but not bos and eos
ClmLabel_short_mask(src_input_id, tgt_input_id) ==
    Repeat(Len(src_input_id) - 2, IGNORE_INDEX) \o tgt_input_id

\* the label is a copy of input_id: the source span is not masked
ClmLabel_unmasked(src_input_id, tgt_input_id) == src_input_id \o tgt_input_id

\* line 141: label = len(src_input_id) * [-100] + tgt_input_id
ClmLabel(src_input_id, tgt_input_id) ==
    Repeat(Len(src_input_id), IGNORE_INDEX) \o tgt_input_id

\* lines 132-151: one iteration of the loop, its locals as a record
EncodeExample(src, tgt) ==
    LET src_ids0 == Encode(src)
        tgt_ids0 == Encode(tgt)
    IN IF model_name \in CLM_MODELS
       THEN LET src_ids == TruncateSourceCLM(src_ids0)
                tgt_ids == TruncateTargetCLM(tgt_ids0)
                src_input_id == <<bos_token_id>> \o prefix_ids \o src_ids \o suffix_ids
                                \o <<eos_token_id>>
                tgt_input_id == tgt_ids \o <<eos_token_id>>
                input_id == src_input_id \o tgt_input_id
            IN [encoded_src |-> src_ids0, encoded_tgt |-> tgt_ids0,
                src_ids |-> src_ids, tgt_ids |-> tgt_ids,
                src_input_id |-> src_input_id, tgt_input_id |-> tgt_input_id,
                input_id |-> input_id,
                label |-> ClmLabel(src_input_id, tgt_input_id),
                attn_mask |-> Repeat(Len(input_id), 1)]
       ELSE LET src_ids == TruncateSourceEncDec(src_ids0)
                tgt_ids == TruncateTargetEncDec(tgt_ids0)
                input_id == BuildInputsWithSpecialTokens(tokenizer,
                                prefix_ids \o src_ids \o suffix_ids)
            IN [encoded_src |-> src_ids0, encoded_tgt |-> tgt_ids0,
                src_ids |-> src_ids, tgt_ids |-> tgt_ids,
                src_input_id |-> <<>>, tgt_input_id |-> <<>>,
                input_id |-> input_id,
                label |-> BuildInputsWithSpecialTokens(tokenizer, tgt_ids),
                attn_mask |-> Repeat(Len(input_id), 1)]

\* zip(source_text, target_text)
Zip(a, b) == [i \in 1..Min(Len(a), Len(b)) |-> <<a[i], b[i]>>]

RECURSIVE MaxLen(_)
MaxLen(rows) ==
    IF rows = <<>> THEN 0 ELSE Max(Len(Head(rows)), MaxLen(Tail(rows)))

\* pads on the left
PadSequence_left(rows, v) ==
    [r \in 1..Len(rows) |-> Repeat(MaxLen(rows) - Len(rows[r]), v) \o rows[r]]

\* pad_sequence(rows, batch_first=True, padding_value=v)
PadSequence(rows, v) ==
    [r \in 1..Len(rows) |-> rows[r] \o Repeat(MaxLen(rows) - Len(rows[r]), v)]

\* labels[:, 1:]
DropFirstColumn(m) ==
    [r \in 1..Len(m) |-> IF m[r] = <<>> THEN <<>> ELSE Tail(m[r])]

\* drops the first column for every model
ReturnedLabels_always(labels) == DropFirstColumn(labels)

\* drops the first column for every encoder-decoder model
ReturnedLabels_every_encdec(labels) ==
    IF model_name \in EncDecLM_MODELS THEN DropFirstColumn(labels) ELSE labels

\* lines 157-159: the labels entry of the returned mapping
ReturnedLabels(labels) ==
    IF model_name = "bert2bert" THEN DropFirstColumn(labels) ELSE labels

\* lines 125-157: the locals and the returned mapping of one call
FormatBatch(c) ==
    LET pairs == Zip(c.source_text, c.target_text)
        locals == [i \in 1..Len(pairs) |-> EncodeExample(pairs[i][1], pairs[i][2])]
        input_ids == PadSequence([i \in 1..Len(locals) |-> locals[i].input_id],
                                 tokenizer.pad_token_id)
        attn_masks == PadSequence([i \in 1..Len(locals) |-> locals[i].attn_mask], 0)
        labels == PadSequence([i \in 1..Len(locals) |-> locals[i].label], IGNORE_INDEX)
        result == [input_ids |-> input_ids, attention_mask |-> attn_masks,
                   labels |-> ReturnedLabels(labels)]
    IN /\ phase = "ready"
       /\ corpus' = c
       /\ examples' = locals
       /\ inputs' = result
       /\ calls' = calls + 1
       /\ first_corpus' = IF calls = 0 THEN c ELSE first_corpus
       /\ first_inputs' = IF calls = 0 THEN result ELSE first_inputs
       /\ interleaved' = (interleaved \/ (calls > 0 /\ c # first_corpus))

\* the prefix list is extended in place with the retained source ids
GenerateDefaultInputs_extends_prefix(c) ==
    /\ FormatBatch(c)
    /\ prefix_ids' = prefix_ids \o examples'[1].src_ids
    /\ UNCHANGED <<config, phase, error, model_name, model_loaded, tokenizer, configuration,
                   suffix_ids, bos_token_id, eos_token_id, source_max_length,
                   target_max_length>>

\* _generate_default_inputs(corpus): nothing of self is assigned
GenerateDefaultInputs(c) ==
    /\ FormatBatch(c)
    /\ UNCHANGED <<config, phase, error, cfgvars>>

\* the corpora a caller may pass: source_text and target_text of equal length
Corpora(maxBatch, maxText) ==
    UNION {[source_text : [1..n -> {SourceText(k) : k \in 0..maxText}],
            target_text : [1..n -> {TargetText(k) : k \in 0..maxText}]] : n \in 1..maxBatch}

NoCorpus == [source_text |-> <<>>, target_text |-> <<>>]

NoInputs == [input_ids |-> <<>>, attention_mask |-> <<>>, labels |-> <<>>]

Init ==
    /\ config = NoConfig
    /\ phase = "new"
    /\ error = "none"
    /\ model_name = "None"
    /\ model_loaded = "None"
    /\ tokenizer = NoTokenizer
    /\ configuration = NoConfiguration
    /\ prefix_ids = <<>>
    /\ suffix_ids = <<>>
    /\ bos_token_id = -1
    /\ eos_token_id = -1
    /\ source_max_length = 0
    /\ target_max_length = 0
    /\ corpus = NoCorpus
    /\ examples = <<>>
    /\ inputs = NoInputs
    /\ calls = 0
    /\ first_corpus = NoCorpus
    /\ first_inputs = NoInputs
    /\ interleaved = FALSE

\* Spec: one construction from any configuration, then one forward call
\* on a corpus of one example
New ==
    \E cfg \in Configs(ModelIdentifiers, MaxSourceMaxLength, MaxTargetMaxLength,
                       MaxAffixLen, InheritedSpecialIds) : Construct(cfg)

Forward ==
    /\ calls = 0
    /\ \E c \in Corpora(1, MaxTextLen) : GenerateDefaultInputs(c)

Next == New \/ Forward

Spec == Init /\ [][Next]_vars

\* SpecBatch: construction with a supported identifier and no prompts, then one
\* forward call on a batch of up to MaxBatch examples
NewBatch ==
    \E cfg \in Configs(DOMAIN MODEL_CLASSES, MaxBatchLength, MaxBatchLength,
                       0, {<<50256, 50256>>}) : Construct(cfg)

ForwardBatch ==
    /\ calls = 0
    /\ \E c \in Corpora(MaxBatch, MaxBatchTextLen) : GenerateDefaultInputs(c)

NextBatch == NewBatch \/ ForwardBatch

SpecBatch == Init /\ [][NextBatch]_vars

\* SpecIdem: construction, then up to MaxCalls forward calls, each on any
\* corpus of one example
NewIdem ==
    \E cfg \in Configs(DOMAIN MODEL_CLASSES, MaxIdemLength, MaxIdemLength,
                       1, {<<50256, 50256>>}) : Construct(cfg)

ForwardIdem ==
    /\ calls < MaxCalls
    /\ \E c \in Corpora(1, MaxIdemTextLen) : GenerateDefaultInputs(c)

NextIdem == NewIdem \/ ForwardIdem

SpecIdem == Init /\ [][NextIdem]_vars

\* ---------------------------------------------------------------- properties
\* a _generate_default_inputs call has returned
Called == phase = "ready" /\ calls >= 1

IsCLM == model_name \in {"gpt2seq", "big_bird2seq", "bert2seq", "roberta2seq"}

IsEncDec == model_name \in {"t5", "bart", "bert2bert", "big_bird_pegasus", "blender_bot"}

\* a is the first Len(a) elements of b
IsPrefixOf(a, b) == Len(a) <= Len(b) /\ \A j \in 1..Len(a) : a[j] = b[j]

\* row is x followed only by v
IsRightPadded(row, x, v) ==
    /\ IsPrefixOf(x, row)
    /\ \A j \in (Len(x) + 1)..Len(row) : row[j] = v

\* the special-token overhead of the mode: 2 in CLM mode, the tokenizer's in EncDec
SourceOverhead == IF IsCLM THEN 2 ELSE NumSpecialTokensToAdd(tokenizer)

TargetOverhead == IF IsCLM THEN 1 ELSE NumSpecialTokensToAdd(tokenizer)

\* the part of the unpadded label that carries the target
TargetSpan(e) == IF IsCLM THEN e.tgt_input_id ELSE e.label

\* C1 as stated: in both modes, each example's input_id, label and
\* attention_mask have the same length before padding.
C1_SameLengthEveryMode ==
    Called =>
        \A i \in 1..Len(examples) :
            /\ Len(examples[i].input_id) = Len(examples[i].label)
            /\ Len(examples[i].label) = Len(examples[i].attn_mask)

\* C1 amended: input_id and attention_mask have the same length in both modes;
\* the label has that length too in CLM mode, and in EncDec mode it has the
\* length of the retained target plus the tokenizer's special tokens.
C1_LengthsPerMode ==
    Called =>
        \A i \in 1..Len(examples) :
            /\ Len(examples[i].input_id) = Len(examples[i].attn_mask)
            /\ IsCLM => Len(examples[i].label) = Len(examples[i].input_id)
            /\ IsEncDec => Len(examples[i].label) =
                              Len(examples[i].tgt_ids) + NumSpecialTokensToAdd(tokenizer)

C1_Witness ==
    /\ Called
    /\ IsCLM
    /\ Len(examples[1].src_ids) >= 1
    /\ Len(examples[1].tgt_ids) >= 1
    /\ Len(examples[1].label) = Len(examples[1].input_id)

\* C3: in CLM mode with source_max_length >= len(prefix) + len(suffix) + 2, the
\* retained source ids are the first min(len(source), source_max_length - 2 -
\* len(prefix) - len(suffix)) encoded source ids, and src_input = [bos] + prefix
\* + retained + suffix + [eos] has at most source_max_length tokens.
C3_SourceTruncationCLM ==
    (Called /\ IsCLM /\ source_max_length >= Len(prefix_ids) + Len(suffix_ids) + 2) =>
        \A i \in 1..Len(examples) :
            LET e == examples[i]
                budget == source_max_length - 2 - Len(prefix_ids) - Len(suffix_ids)
            IN /\ e.encoded_src = Encode(corpus.source_text[i])
               /\ IsPrefixOf(e.src_ids, e.encoded_src)
               /\ Len(e.src_ids) = Min(Len(e.encoded_src), budget)
               /\ e.src_input_id = <<bos_token_id>> \o prefix_ids \o e.src_ids
                                   \o suffix_ids \o <<eos_token_id>>
               /\ Len(e.src_input_id) <= source_max_length

C3_Witness ==
    /\ Called
    /\ IsCLM
    /\ source_max_length >= Len(prefix_ids) + Len(suffix_ids) + 3
    /\ Len(examples[1].encoded_src) > Len(examples[1].src_ids)
    /\ Len(examples[1].src_ids) >= 1

\* C4 as stated: when source_max_length < len(prefix) + len(suffix) + overhead,
\* the retained source has zero tokens, whatever the source text.
C4_UnderflowKeepsNothing ==
    (Called /\ source_max_length < Len(prefix_ids) + Len(suffix_ids) + SourceOverhead) =>
        \A i \in 1..Len(examples) : Len(examples[i].src_ids) = 0

\* C5: in CLM mode input_id = src_input + tgt_input with tgt_input = retained
\* target + [eos]; the label's first len(src_input) entries are all -100 and
\* its remaining entries are tgt_input.
C5_LabelMasksSourceCLM ==
    (Called /\ IsCLM) =>
        \A i \in 1..Len(examples) :
            LET e == examples[i]
                n == Len(e.src_input_id)
            IN /\ e.input_id = e.src_input_id \o e.tgt_input_id
               /\ e.tgt_input_id = e.tgt_ids \o <<eos_token_id>>
               /\ Len(e.label) = n + Len(e.tgt_input_id)
               /\ \A j \in 1..n : e.label[j] = -100
               /\ \A j \in 1..Len(e.tgt_input_id) : e.label[n + j] = e.tgt_input_id[j]
               /\ \A j \in (n + 1)..Len(e.label) : e.label[j] # -100

C5_Witness ==
    /\ Called
    /\ IsCLM
    /\ Len(examples[1].tgt_ids) >= 1
    /\ Len(examples[1].src_input_id) >= 3
    /\ examples[1].label[Len(examples[1].src_input_id)] = -100
    /\ examples[1].label[Len(examples[1].src_input_id) + 1] = examples[1].tgt_ids[1]

\* C10 as stated: for every positive target_max_length the retained target is
\* a prefix of the encoded target of length at most target_max_length minus
\* the overhead (1 in CLM mode, num_special_tokens_to_add() in EncDec mode),
\* and the label's target span has at most target_max_length tokens.
C10_TargetBoundEveryLength ==
    (Called /\ target_max_length >= 1) =>
        \A i \in 1..Len(examples) :
            LET e == examples[i]
            IN /\ IsPrefixOf(e.tgt_ids, e.encoded_tgt)
               /\ Len(e.tgt_ids) <= target_max_length - TargetOverhead
               /\ Len(TargetSpan(e)) <= target_max_length

\* C10 amended: the same, for every target_max_length that is at least the
\* overhead.
C10_TargetBoundFromOverhead ==
    (Called /\ target_max_length >= TargetOverhead) =>
        \A i \in 1..Len(examples) :
            LET e == examples[i]
            IN /\ e.encoded_tgt = Encode(corpus.target_text[i])
               /\ IsPrefixOf(e.tgt_ids, e.encoded_tgt)
               /\ Len(e.tgt_ids) = Min(Len(e.encoded_tgt), target_max_length - TargetOverhead)
               /\ Len(TargetSpan(e)) <= target_max_length

C10_Witness ==
    /\ Called
    /\ IsEncDec
    /\ target_max_length > TargetOverhead
    /\ Len(examples[1].encoded_tgt) > Len(examples[1].tgt_ids)
    /\ Len(examples[1].tgt_ids) >= 1

\* every row of matrix m has w columns
HasWidth(m, w) == \A r \in 1..Len(m) : Len(m[r]) = w

\* w is the largest length among the sequences of rows
IsLongest(w, rows) ==
    /\ \A i \in 1..Len(rows) : Len(rows[i]) <= w
    /\ \E i \in 1..Len(rows) : Len(rows[i]) = w

InputIdList == [i \in 1..Len(examples) |-> examples[i].input_id]

LabelList == [i \in 1..Len(examples) |-> examples[i].label]

\* C2 as stated: the three returned tensors have one row per example and the
\* same second dimension, the longest per-example sequence of the batch.
C2_OneShapeForAll ==
    Called =>
        /\ Len(inputs.input_ids) = Len(corpus.source_text)
        /\ Len(inputs.attention_mask) = Len(corpus.source_text)
        /\ Len(inputs.labels) = Len(corpus.source_text)
        /\ \E w \in 0..(Len(inputs.input_ids[1])) :
              /\ IsLongest(w, InputIdList)
              /\ HasWidth(inputs.input_ids, w)
              /\ HasWidth(inputs.attention_mask, w)
              /\ HasWidth(inputs.labels, w)

\* C2 amended: the three tensors have one row per example; input_ids and
\* attention_mask have as many columns as the longest input_id; labels has as
\* many columns as the longest label, one fewer for bert2bert; in CLM mode the
\* three second dimensions are equal.
C2_ShapePerField ==
    Called =>
        /\ Len(inputs.input_ids) = Len(corpus.source_text)
        /\ Len(inputs.attention_mask) = Len(corpus.source_text)
        /\ Len(inputs.labels) = Len(corpus.source_text)
        /\ \E w \in 0..(Len(inputs.input_ids[1])) :
              /\ IsLongest(w, InputIdList)
              /\ HasWidth(inputs.input_ids, w)
              /\ HasWidth(inputs.attention_mask, w)
              /\ IsCLM => HasWidth(inputs.labels, w)
        /\ \E w \in 0..(Len(inputs.labels[1]) + 1) :
              /\ IsLongest(w, LabelList)
              /\ HasWidth(inputs.labels, IF model_name = "bert2bert" THEN w - 1 ELSE w)

C2_Witness ==
    /\ Called
    /\ IsEncDec
    /\ Len(examples) = 2
    /\ Len(examples[1].input_id) < Len(examples[2].input_id)
    /\ Len(examples[1].label) > Len(examples[2].label)
    /\ Len(inputs.labels[1]) # Len(inputs.input_ids[1])

\* C6: in EncDec mode each returned labels row, without its padding, is
\* build_inputs_with_special_tokens(retained target), and for bert2bert, and
\* only for bert2bert, that sequence without its first element.
C6_LabelEncDec ==
    (Called /\ IsEncDec) =>
        \A i \in 1..Len(examples) :
            LET framed == BuildInputsWithSpecialTokens(tokenizer, examples[i].tgt_ids)
                want == IF model_name = "bert2bert" THEN Tail(framed) ELSE framed
            IN /\ IsPrefixOf(examples[i].tgt_ids, Encode(corpus.target_text[i]))
               /\ IsRightPadded(inputs.labels[i], want, -100)

C6_Witness ==
    /\ Called
    /\ model_name = "bert2bert"
    /\ Len(examples) = 2
    /\ Len(examples[1].tgt_ids) = 1
    /\ Len(examples[2].tgt_ids) = 0
    /\ inputs.labels[1] = <<examples[1].tgt_ids[1], tokenizer.sep_token_id>>
    /\ inputs.labels[2] = <<tokenizer.sep_token_id, -100>>

\* C7 as stated: row i of attention_mask is len(input_id_i) ones then zeros,
\* row i of input_ids is input_id_i then pad ids, row i of labels is label_i
\* then -100, for every model.
C7_RightPaddedRows ==
    Called =>
        \A i \in 1..Len(examples) :
            /\ IsRightPadded(inputs.attention_mask[i],
                             [j \in 1..Len(examples[i].input_id) |-> 1], 0)
            /\ IsRightPadded(inputs.input_ids[i], examples[i].input_id,
                             tokenizer.pad_token_id)
            /\ IsRightPadded(inputs.labels[i], examples[i].label, -100)

\* C7 amended: the same, where for bert2bert row i of labels is label_i without
\* its first element, then -100.
C7_RightPaddedRowsShifted ==
    Called =>
        \A i \in 1..Len(examples) :
            /\ IsRightPadded(inputs.attention_mask[i],
                             [j \in 1..Len(examples[i].input_id) |-> 1], 0)
            /\ IsRightPadded(inputs.input_ids[i], examples[i].input_id,
                             tokenizer.pad_token_id)
            /\ IsRightPadded(inputs.labels[i],
                             IF model_name = "bert2bert" THEN Tail(examples[i].label)
                                                         ELSE examples[i].label,
                             -100)

C7_Witness ==
    /\ Called
    /\ Len(examples) = 2
    /\ Len(examples[1].input_id) < Len(examples[2].input_id)
    /\ Len(examples[1].label) < Len(examples[2].label)
    /\ inputs.input_ids[1][Len(inputs.input_ids[1])] = tokenizer.pad_token_id
    /\ inputs.attention_mask[1][Len(inputs.attention_mask[1])] = 0
    /\ inputs.labels[1][Len(inputs.labels[1])] = -100

\* the identifiers that are supported after lower-casing
SupportedIdentifiers ==
    {"t5", "bart", "bert2bert", "big_bird_pegasus", "blender_bot",
     "gpt2seq", "big_bird2seq", "bert2seq", "roberta2seq",
     "T5", "BART", "GPT2Seq", "Bert2Bert"}

C9_Idempotence ==
    Called =>
        /\ prefix_ids = Encode(config.prefix_prompt)
        /\ suffix_ids = Encode(config.suffix_prompt)
        /\ source_max_length = config.source_max_length
        /\ target_max_length = config.target_max_length
        /\ model_name = config.model
        /\ bos_token_id = (IF IsCLM /\ tokenizer.has_cls THEN tokenizer.cls_token_id
                                                       ELSE config.inherited[1])
        /\ eos_token_id = (IF IsCLM /\ tokenizer.has_sep THEN tokenizer.sep_token_id
                                                       ELSE config.inherited[2])
        /\ corpus = first_corpus => inputs = first_inputs

C9_Witness ==
    /\ Called
    /\ calls >= 3
    /\ interleaved
    /\ corpus = first_corpus
    /\ inputs = first_inputs
    /\ Len(examples[1].src_ids) >= 1

====
